---- MODULE Spec2Model ----
(***************************************************************************)
(* The task store of src/App.js (the App component): the tasks collection, *)
(* the text field, the two loading indicators, the drag payload and the    *)
(* two asynchronous AI workflows.  Every handler is a closure over the     *)
(* `tasks` value of the render in which it was created: a synchronous      *)
(* handler runs against the current collection, while the part of an       *)
(* asynchronous workflow that runs after its awaits still holds the        *)
(* collection of the render in which the button was clicked.               *)
(***************************************************************************)
EXTENDS Integers, Sequences, FiniteSets, TLC

VARIABLES
    tasks,                  \* useState([]) : the task collection, in order
    newTaskText,            \* first element bound on line 13
    setNewTaskText,         \* second element bound on line 13
    inputValue,             \* text shown in the <input> element
    aiLoadingTaskId,        \* task id being analysed, or NullId
    breakdownLoadingTaskId, \* task id being broken down, or NullId
    dragData,               \* dataTransfer 'taskId' payload of the drag
    inflight,               \* workflow invocations suspended at their await
    now,                    \* reading of Date.now()
    sent,                   \* number of workflow invocations started so far
    uncaught,               \* number of TypeErrors thrown out of a handler
    lastOp                  \* history: the handler that ran last

vars == <<tasks, newTaskText, setNewTaskText, inputValue, aiLoadingTaskId,
          breakdownLoadingTaskId, dragData, inflight, now, sent, uncaught,
          lastOp>>

-----------------------------------------------------------------------------
(* Bounds *)

MaxTasks == 2
MaxClock == 2
\* workflow invocations per run, with every handler in play
MaxRequests == 1
\* workflow invocations per run, with the store's add and delete only
MaxFlowRequests == 3
MaxUncaught == 2
MaxServiceRequests == 2

-----------------------------------------------------------------------------
(* JavaScript values *)

Null == [type |-> "null"]
Undefined == [type |-> "undefined"]
Str(s) == [type |-> "string", val |-> s]
Arr(items) == [type |-> "array", items |-> items]
Obj(c, p, n) == [type |-> "object", category |-> c, priority |-> p, notes |-> n]

\* null where a task id is expected (ids are clock readings, all >= 1)
NullId == 0
\* the number NaN, equal to no task id
NaN == -1

\* JavaScript truthiness of the values a task's AI fields can hold
Truthy(v) == v.type \notin {"null", "undefined"}

\* Texts a user can enter: sequences of characters
Texts == {<<>>, <<" ">>, <<" ", "a">>}

RECURSIVE TrimStart(_)
TrimStart(s) ==
    IF s = <<>> THEN s
    ELSE IF Head(s) = " " THEN TrimStart(Tail(s)) ELSE s

RECURSIVE TrimEnd(_)
TrimEnd(s) ==
    IF s = <<>> THEN s
    ELSE IF s[Len(s)] = " " THEN TrimEnd(SubSeq(s, 1, Len(s) - 1)) ELSE s

\* faulty variant of Trim: the text is tested as entered
NoTrim(s) == s

\* String.prototype.trim
Trim(s) == TrimEnd(TrimStart(s))

Digits == <<"0", "1", "2", "3", "4", "5", "6", "7", "8", "9">>

\* Number -> string, as dataTransfer.setData stores a number
RECURSIVE NumberToString(_)
NumberToString(n) ==
    IF n < 10 THEN <<Digits[n + 1]>>
    ELSE NumberToString(n \div 10) \o <<Digits[(n % 10) + 1]>>

DigitValue(c) == CHOOSE d \in 0..9 : Digits[d + 1] = c

IsDigit(c) == \E d \in 0..9 : Digits[d + 1] = c

RECURSIVE ParseDigits(_, _)
ParseDigits(s, acc) ==
    IF s = <<>> \/ ~IsDigit(Head(s)) THEN acc
    ELSE ParseDigits(Tail(s), acc * 10 + DigitValue(Head(s)))

\* parseInt of a string without sign or leading blanks: NaN unless it starts with a digit
ParseInt(s) ==
    IF s = <<>> \/ ~IsDigit(Head(s)) THEN NaN ELSE ParseDigits(s, 0)

-----------------------------------------------------------------------------
(* The task collection *)

Statuses == {"todo", "in-progress", "done"}

NewTask(id, text) ==
    [id |-> id, text |-> text, completed |-> FALSE, status |-> "todo",
     aiAnalysis |-> Null, aiSubTasks |-> Null, isSubTasksVisible |-> FALSE]

\* faulty variant of WithoutId: the comparison is inverted
RECURSIVE OnlyId(_, _)
OnlyId(ts, id) ==
    IF ts = <<>> THEN <<>>
    ELSE IF Head(ts).id # id THEN OnlyId(Tail(ts), id)
    ELSE <<Head(ts)>> \o OnlyId(Tail(ts), id)

\* tasks.filter(task => task.id !== id)
RECURSIVE WithoutId(_, _)
WithoutId(ts, id) ==
    IF ts = <<>> THEN <<>>
    ELSE IF Head(ts).id = id THEN WithoutId(Tail(ts), id)
    ELSE <<Head(ts)>> \o WithoutId(Tail(ts), id)

\* faulty variant of ToggledComplete: the status is left as it was
ToggledCompleteKeepsStatus(task) == [task EXCEPT !.completed = ~task.completed]

\* faulty variant of ToggledComplete: uncompleting puts the task back in progress
ToggledCompleteToInProgress(task) ==
    LET newStatus == IF ~task.completed THEN "done" ELSE "in-progress"
    IN  [task EXCEPT !.completed = ~task.completed, !.status = newStatus]

ToggledComplete(task) ==
    LET newStatus == IF ~task.completed THEN "done" ELSE "todo"
    IN  [task EXCEPT !.completed = ~task.completed, !.status = newStatus]

ToggledVisibility(task) ==
    [task EXCEPT !.isSubTasksVisible = ~task.isSubTasksVisible]

\* faulty variant of Column: the newest task of a column comes first
RECURSIVE ColumnNewestFirst(_, _)
ColumnNewestFirst(ts, status) ==
    IF ts = <<>> THEN <<>>
    ELSE IF Head(ts).status = status
    THEN ColumnNewestFirst(Tail(ts), status) \o <<Head(ts)>>
    ELSE ColumnNewestFirst(Tail(ts), status)

\* tasks.filter(task => task.status === status): the cards of one column
RECURSIVE Column(_, _)
Column(ts, status) ==
    IF ts = <<>> THEN <<>>
    ELSE IF Head(ts).status = status
    THEN <<Head(ts)>> \o Column(Tail(ts), status)
    ELSE Column(Tail(ts), status)

\* the number shown in the header of a column
Count(ts, status) == Len(Column(ts, status))

\* faulty variant of Dropped: a done task stays where it is
DroppedDoneIsFinal(task, newStatus) ==
    IF task.status = "done" THEN task
    ELSE [task EXCEPT !.status = newStatus, !.completed = (newStatus = "done")]

\* faulty variant of Dropped: the completed flag is left as it was
DroppedKeepsCompleted(task, newStatus) == [task EXCEPT !.status = newStatus]

Dropped(task, newStatus) ==
    LET newCompleted == IF newStatus = "done" THEN TRUE ELSE FALSE
    IN  [task EXCEPT !.status = newStatus, !.completed = newCompleted]

WithAnalysis(task, aiAnalysis) == [task EXCEPT !.aiAnalysis = aiAnalysis]

\* faulty variant of WithSubTasks: the sub-task section is not opened
WithSubTasksKeepsVisibility(task, aiSubTasks) ==
    [task EXCEPT !.aiSubTasks = aiSubTasks]

WithSubTasks(task, aiSubTasks) ==
    [task EXCEPT !.aiSubTasks = aiSubTasks, !.isSubTasksVisible = TRUE]

-----------------------------------------------------------------------------
(* Initial state *)

InitStore ==
    /\ tasks = <<>>
    /\ aiLoadingTaskId = NullId
    /\ breakdownLoadingTaskId = NullId
    /\ dragData = <<>>
    /\ inflight = <<>>
    /\ now = 1
    /\ sent = 0
    /\ uncaught = 0
    /\ lastOp = [op |-> "mount", id |-> NullId]

\* const [newTaskText, setNewTaskText] = '' : the empty string yields no
\* element, so both names are bound to undefined
InitTextSrc ==
    /\ newTaskText = Undefined
    /\ setNewTaskText = Undefined
    /\ inputValue = <<>>

\* the text field as section 4.1 of the specification has it: add(text) is
\* given the entered text, which starts empty
InitTextHook ==
    /\ newTaskText = Str(<<>>)
    /\ setNewTaskText = [type |-> "function"]
    /\ inputValue = <<>>

\* the component after its first render, with the text state either way
Init == InitStore /\ (InitTextSrc \/ InitTextHook)

-----------------------------------------------------------------------------
(* Handlers *)

Op(name, id) == [op |-> name, id |-> id]

\* no drag gesture is under way: the pointer is free to click and type
Idle == dragData = <<>>

\* the clock advances
Tick ==
    /\ now < MaxClock
    /\ now' = now + 1
    /\ UNCHANGED <<tasks, newTaskText, setNewTaskText, inputValue,
                   aiLoadingTaskId, breakdownLoadingTaskId, dragData,
                   inflight, sent, uncaught, lastOp>>

\* onChange={(e) => setNewTaskText(e.target.value)}
OnChange(v) ==
    /\ Idle
    /\ inputValue' = v
    /\ IF setNewTaskText = Undefined
       THEN /\ uncaught < MaxUncaught
            /\ uncaught' = uncaught + 1
            /\ UNCHANGED newTaskText
       ELSE /\ newTaskText' = Str(v)
            /\ UNCHANGED uncaught
    /\ lastOp' = Op("onChange", NullId)
    /\ UNCHANGED <<tasks, setNewTaskText, aiLoadingTaskId,
                   breakdownLoadingTaskId, dragData, inflight, now, sent>>

AddTask ==
    /\ Idle
    /\ IF newTaskText = Undefined
       THEN \* newTaskText.trim() throws a TypeError
            /\ uncaught < MaxUncaught
            /\ uncaught' = uncaught + 1
            /\ UNCHANGED <<tasks, newTaskText, inputValue>>
       ELSE IF Trim(newTaskText.val) # <<>>
       THEN /\ Len(tasks) < MaxTasks
            /\ LET newId == now
               IN  tasks' = Append(tasks, NewTask(newId, newTaskText.val))
            /\ newTaskText' = Str(<<>>)
            /\ inputValue' = <<>>
            /\ UNCHANGED uncaught
       ELSE UNCHANGED <<tasks, newTaskText, inputValue, uncaught>>
    /\ lastOp' = Op("addTask", NullId)
    /\ UNCHANGED <<setNewTaskText, aiLoadingTaskId, breakdownLoadingTaskId,
                   dragData, inflight, now, sent>>

\* onChange={() => toggleComplete(task.id)} of the card of tasks[i]
ToggleComplete(i) ==
    /\ Idle
    /\ i \in 1..Len(tasks)
    /\ LET id == tasks[i].id
       IN  /\ tasks' = [j \in 1..Len(tasks) |->
                          IF tasks[j].id = id THEN ToggledComplete(tasks[j])
                          ELSE tasks[j]]
           /\ lastOp' = Op("toggleComplete", id)
    /\ UNCHANGED <<newTaskText, setNewTaskText, inputValue, aiLoadingTaskId,
                   breakdownLoadingTaskId, dragData, inflight, now, sent,
                   uncaught>>

\* the Hide/Show button, rendered only when task.aiSubTasks is truthy
ToggleSubTasksVisibility(i) ==
    /\ Idle
    /\ i \in 1..Len(tasks)
    /\ Truthy(tasks[i].aiSubTasks)
    /\ LET id == tasks[i].id
       IN  /\ tasks' = [j \in 1..Len(tasks) |->
                          IF tasks[j].id = id THEN ToggledVisibility(tasks[j])
                          ELSE tasks[j]]
           /\ lastOp' = Op("toggleSubTasksVisibility", id)
    /\ UNCHANGED <<newTaskText, setNewTaskText, inputValue, aiLoadingTaskId,
                   breakdownLoadingTaskId, dragData, inflight, now, sent,
                   uncaught>>

\* the Delete button of the card of tasks[i]
DeleteTask(i) ==
    /\ Idle
    /\ i \in 1..Len(tasks)
    /\ LET id == tasks[i].id
       IN  /\ tasks' = WithoutId(tasks, id)
           /\ lastOp' = Op("deleteTask", id)
    /\ UNCHANGED <<newTaskText, setNewTaskText, inputValue, aiLoadingTaskId,
                   breakdownLoadingTaskId, dragData, inflight, now, sent,
                   uncaught>>

\* onDragStart of the card of tasks[i]
HandleDragStart(i) ==
    /\ Idle
    /\ i \in 1..Len(tasks)
    /\ dragData' = NumberToString(tasks[i].id)
    /\ lastOp' = Op("handleDragStart", tasks[i].id)
    /\ UNCHANGED <<tasks, newTaskText, setNewTaskText, inputValue,
                   aiLoadingTaskId, breakdownLoadingTaskId, inflight, now,
                   sent, uncaught>>

\* onDrop of the column of newStatus; a drag that carries no 'taskId' data
\* (dragData empty) parses to NaN and matches no task.  The drop ends the drag.
HandleDrop(newStatus) ==
    /\ LET taskId == ParseInt(dragData)
       IN  /\ tasks' = [j \in 1..Len(tasks) |->
                          IF tasks[j].id = taskId
                          THEN Dropped(tasks[j], newStatus)
                          ELSE tasks[j]]
           /\ lastOp' = Op("handleDrop", taskId)
    /\ dragData' = <<>>
    /\ UNCHANGED <<newTaskText, setNewTaskText, inputValue, aiLoadingTaskId,
                   breakdownLoadingTaskId, inflight, now, sent, uncaught>>

-----------------------------------------------------------------------------
(* The text-generation service *)

TextWork == "{\"category\":\"Work\",\"priority\":\"High\",\"notes\":\"due soon\"}"
TextList == "[\"Step 1\",\"Step 2\"]"
TextNull == "null"
TextBad == "{\"category\":"

\* JSON.parse of the texts the model's service returns
JSONParse(text) ==
    CASE text = TextWork -> [ok |-> TRUE, value |-> Obj("Work", "High", "due soon")]
      [] text = TextList -> [ok |-> TRUE, value |-> Arr(<<"Step 1", "Step 2">>)]
      [] text = TextNull -> [ok |-> TRUE, value |-> Null]
      [] OTHER -> [ok |-> FALSE, message |-> "Unexpected end of JSON input"]

\* what one request can come back with
NetworkFailure == [fetch |-> "rejected", ok |-> FALSE, body |-> "none", text |-> ""]
HttpError == [fetch |-> "resolved", ok |-> FALSE, body |-> "none", text |-> ""]
BadBody == [fetch |-> "resolved", ok |-> TRUE, body |-> "unparsable", text |-> ""]
NoContent == [fetch |-> "resolved", ok |-> TRUE, body |-> "nocontent", text |-> ""]
Content(t) == [fetch |-> "resolved", ok |-> TRUE, body |-> "content", text |-> t]

AnalysisResponses == {HttpError, NoContent, Content(TextWork)}

BreakdownResponses == {HttpError, NoContent, Content(TextList)}

\* every way the service call of analyzeTaskWithAI can end
AnalysisOutcomes ==
    {NetworkFailure, HttpError, BadBody, NoContent,
     Content(TextBad), Content(TextNull), Content(TextWork)}

\* every way the service call of breakdownTaskWithAI can end
BreakdownOutcomes ==
    {NetworkFailure, HttpError, BadBody, NoContent,
     Content(TextBad), Content(TextNull), Content(TextList)}

\* the try block up to the parse: the parsed value, the missing-content
\* branch, or the message of the error thrown
Attempt(resp) ==
    IF resp.fetch = "rejected"
    THEN [path |-> "catch", message |-> "Failed to fetch"]
    ELSE IF ~resp.ok
    THEN [path |-> "catch", message |-> "HTTP error! status: 500"]
    ELSE IF resp.body = "unparsable"
    THEN [path |-> "catch", message |-> "Unexpected token < in JSON at position 0"]
    ELSE IF resp.body = "content"
    THEN LET parsed == JSONParse(resp.text)
         IN  IF parsed.ok THEN [path |-> "try", value |-> parsed.value]
             ELSE [path |-> "catch", message |-> parsed.message]
    ELSE [path |-> "else"]

\* `Analysis failed: ${error.message}`, for the messages the model's errors carry
AnalysisFailed(message) ==
    CASE message = "Failed to fetch" -> "Analysis failed: Failed to fetch"
      [] message = "HTTP error! status: 500" ->
             "Analysis failed: HTTP error! status: 500"
      [] message = "Unexpected token < in JSON at position 0" ->
             "Analysis failed: Unexpected token < in JSON at position 0"
      [] message = "Unexpected end of JSON input" ->
             "Analysis failed: Unexpected end of JSON input"

\* `Breakdown failed: ${error.message}`
BreakdownFailed(message) ==
    CASE message = "Failed to fetch" -> "Breakdown failed: Failed to fetch"
      [] message = "HTTP error! status: 500" ->
             "Breakdown failed: HTTP error! status: 500"
      [] message = "Unexpected token < in JSON at position 0" ->
             "Breakdown failed: Unexpected token < in JSON at position 0"
      [] message = "Unexpected end of JSON input" ->
             "Breakdown failed: Unexpected end of JSON input"

\* faulty variant of AnalysisWritten: the catch block writes the generic note
AnalysisWrittenGenericNote(resp) ==
    LET a == Attempt(resp)
    IN  IF a.path = "try" THEN a.value
        ELSE Obj("Error", "Error", "Could not analyze")

\* the aiAnalysis value analyzeTaskWithAI writes for a response
AnalysisWritten(resp) ==
    LET a == Attempt(resp)
    IN  CASE a.path = "try" -> a.value
          [] a.path = "else" -> Obj("Error", "Error", "Could not analyze")
          [] a.path = "catch" ->
                 Obj("Error", "Error", AnalysisFailed(a.message))

\* faulty variant of SubTasksWritten: a failure leaves an empty list
SubTasksWrittenEmptyOnFailure(resp) ==
    LET a == Attempt(resp)
    IN  IF a.path = "try" THEN a.value ELSE Arr(<<>>)

\* the aiSubTasks value breakdownTaskWithAI writes for a response
SubTasksWritten(resp) ==
    LET a == Attempt(resp)
    IN  CASE a.path = "try" -> a.value
          [] a.path = "else" -> Arr(<<"Could not break down task.">>)
          [] a.path = "catch" -> Arr(<<BreakdownFailed(a.message)>>)

\* faulty variant of AiLoadingAfter: cleared at the end of the try block only
AiLoadingAfterTryOnly(resp) ==
    IF Attempt(resp).path = "catch" THEN aiLoadingTaskId ELSE NullId

\* finally { setAiLoadingTaskId(null) }: whatever path the attempt took
AiLoadingAfter(resp) == NullId

\* finally { setBreakdownLoadingTaskId(null) }
BreakdownLoadingAfter(resp) == NullId

-----------------------------------------------------------------------------
(* The AI workflows *)

Request(kind, taskId, taskText) ==
    [kind |-> kind, taskId |-> taskId, taskText |-> taskText, tasks |-> tasks]

RemoveAt(s, k) == SubSeq(s, 1, k - 1) \o SubSeq(s, k + 1, Len(s))

\* analyzeTaskWithAI up to its await: the AI Analyze button of tasks[i],
\* disabled while aiLoadingTaskId is the task's id
AnalyzeTaskWithAI(i) ==
    /\ Idle
    /\ i \in 1..Len(tasks)
    /\ aiLoadingTaskId # tasks[i].id
    /\ aiLoadingTaskId' = tasks[i].id
    /\ inflight' = Append(inflight, Request("analyze", tasks[i].id, tasks[i].text))
    /\ sent' = sent + 1
    /\ lastOp' = Op("analyzeTaskWithAI", tasks[i].id)
    /\ UNCHANGED <<tasks, newTaskText, setNewTaskText, inputValue,
                   breakdownLoadingTaskId, dragData, now, uncaught>>

\* analyzeTaskWithAI from its await to its end, for the k-th outstanding
\* request: the collection written is the one the invocation closed over
AnalyzeSettle(k, resp) ==
    /\ k \in 1..Len(inflight)
    /\ inflight[k].kind = "analyze"
    /\ LET req == inflight[k]
           aiAnalysis == AnalysisWritten(resp)
       IN  /\ tasks' = [j \in 1..Len(req.tasks) |->
                          IF req.tasks[j].id = req.taskId
                          THEN WithAnalysis(req.tasks[j], aiAnalysis)
                          ELSE req.tasks[j]]
           /\ lastOp' = Op("analyzeSettle", req.taskId)
    /\ aiLoadingTaskId' = AiLoadingAfter(resp)
    /\ inflight' = RemoveAt(inflight, k)
    /\ UNCHANGED <<newTaskText, setNewTaskText, inputValue,
                   breakdownLoadingTaskId, dragData, now, sent, uncaught>>

\* breakdownTaskWithAI up to its await
BreakdownTaskWithAI(i) ==
    /\ Idle
    /\ i \in 1..Len(tasks)
    /\ breakdownLoadingTaskId # tasks[i].id
    /\ breakdownLoadingTaskId' = tasks[i].id
    /\ inflight' = Append(inflight, Request("breakdown", tasks[i].id, tasks[i].text))
    /\ sent' = sent + 1
    /\ lastOp' = Op("breakdownTaskWithAI", tasks[i].id)
    /\ UNCHANGED <<tasks, newTaskText, setNewTaskText, inputValue,
                   aiLoadingTaskId, dragData, now, uncaught>>

\* breakdownTaskWithAI from its await to its end
BreakdownSettle(k, resp) ==
    /\ k \in 1..Len(inflight)
    /\ inflight[k].kind = "breakdown"
    /\ LET req == inflight[k]
           aiSubTasks == SubTasksWritten(resp)
       IN  /\ tasks' = [j \in 1..Len(req.tasks) |->
                          IF req.tasks[j].id = req.taskId
                          THEN WithSubTasks(req.tasks[j], aiSubTasks)
                          ELSE req.tasks[j]]
           /\ lastOp' = Op("breakdownSettle", req.taskId)
    /\ breakdownLoadingTaskId' = BreakdownLoadingAfter(resp)
    /\ inflight' = RemoveAt(inflight, k)
    /\ UNCHANGED <<newTaskText, setNewTaskText, inputValue, aiLoadingTaskId,
                   dragData, now, sent, uncaught>>

-----------------------------------------------------------------------------
(* Specifications *)

\* every handler of the component
Next ==
    \/ Tick
    \/ \E v \in Texts : OnChange(v)
    \/ AddTask
    \/ \E i \in 1..MaxTasks : ToggleComplete(i)
    \/ \E i \in 1..MaxTasks : ToggleSubTasksVisibility(i)
    \/ \E i \in 1..MaxTasks : DeleteTask(i)
    \/ \E i \in 1..MaxTasks : HandleDragStart(i)
    \/ \E s \in Statuses : HandleDrop(s)
    \/ \E i \in 1..MaxTasks : sent < MaxRequests /\ AnalyzeTaskWithAI(i)
    \/ \E k \in 1..MaxRequests, r \in AnalysisResponses : AnalyzeSettle(k, r)
    \/ \E i \in 1..MaxTasks : sent < MaxRequests /\ BreakdownTaskWithAI(i)
    \/ \E k \in 1..MaxRequests, r \in BreakdownResponses : BreakdownSettle(k, r)

Spec == Init /\ [][Next]_vars

\* the workflows, several at once, over a collection that grows and shrinks
NextFlows ==
    \/ Tick
    \/ \E v \in Texts : OnChange(v)
    \/ AddTask
    \/ \E i \in 1..MaxTasks : DeleteTask(i)
    \/ \E i \in 1..MaxTasks : sent < MaxFlowRequests /\ AnalyzeTaskWithAI(i)
    \/ \E k \in 1..MaxFlowRequests, r \in AnalysisResponses : AnalyzeSettle(k, r)
    \/ \E i \in 1..MaxTasks : sent < MaxFlowRequests /\ BreakdownTaskWithAI(i)
    \/ \E k \in 1..MaxFlowRequests, r \in BreakdownResponses : BreakdownSettle(k, r)

SpecFlows == Init /\ [][NextFlows]_vars

\* the workflows under every outcome of the service call
NextService ==
    \/ Tick
    \/ \E v \in Texts : OnChange(v)
    \/ AddTask
    \/ \E i \in 1..MaxTasks : ToggleSubTasksVisibility(i)
    \/ \E i \in 1..MaxTasks : sent < MaxServiceRequests /\ AnalyzeTaskWithAI(i)
    \/ \E k \in 1..MaxServiceRequests, r \in AnalysisOutcomes : AnalyzeSettle(k, r)
    \/ \E i \in 1..MaxTasks : sent < MaxServiceRequests /\ BreakdownTaskWithAI(i)
    \/ \E k \in 1..MaxServiceRequests, r \in BreakdownOutcomes : BreakdownSettle(k, r)

SpecService == Init /\ [][NextService]_vars

\* every request sent is eventually answered or fails
RequestsSettle ==
    /\ WF_vars(\E k \in 1..MaxFlowRequests, r \in AnalysisResponses : AnalyzeSettle(k, r))
    /\ WF_vars(\E k \in 1..MaxFlowRequests, r \in BreakdownResponses : BreakdownSettle(k, r))

SpecFair == SpecFlows /\ RequestsSettle

-----------------------------------------------------------------------------
(* Properties *)

\* a step in which a suspended workflow invocation runs to its end
SettleStep == Len(inflight') < Len(inflight)

SettleOps == {"analyzeSettle", "breakdownSettle"}

\* the ids present in a collection
Ids(ts) == {ts[i].id : i \in 1..Len(ts)}

\* the entered text is empty or whitespace only
IsBlank(s) == \A i \in 1..Len(s) : s[i] = " "

ResultField(task, op) ==
    IF op = "analyzeSettle" THEN task.aiAnalysis ELSE task.aiSubTasks

C8_AddAppendsOneTask ==
    [][(AddTask /\ ~IsBlank(inputValue)) =>
         /\ Len(tasks') = Len(tasks) + 1
         /\ tasks' = Append(tasks, tasks'[Len(tasks')])
         /\ LET new == tasks'[Len(tasks')]
            IN  /\ new.text = inputValue
                /\ new.status = "todo"
                /\ new.completed = FALSE
                /\ new.aiAnalysis = Null
                /\ new.aiSubTasks = Null
                /\ new.isSubTasksVisible = FALSE
         /\ inputValue' = <<>>]_vars

\* C9: invoking the add action with an empty or whitespace-only entered text
\* leaves the collection unchanged.
C9_BlankAddLeavesTasks ==
    [][(AddTask /\ IsBlank(inputValue)) => tasks' = tasks]_vars

\* the add action has run on a whitespace-only text over a collection that
\* holds a task
C9_Witness ==
    /\ lastOp.op = "addTask"
    /\ inputValue = <<" ">>
    /\ newTaskText = Str(<<" ">>)
    /\ Len(tasks) = 1

WithId(ts, id) == {j \in 1..Len(ts) : ts[j].id = id}

\* the error record of the analysis workflow
ErrorAnalysis(notes) ==
    [type |-> "object", category |-> "Error", priority |-> "Error", notes |-> notes]

Result(kind, r) ==
    IF kind = "analyze"
    THEN CASE r = HttpError ->
                  ErrorAnalysis("Analysis failed: HTTP error! status: 500")
           [] r = NoContent -> ErrorAnalysis("Could not analyze")
           [] r = Content(TextWork) -> Obj("Work", "High", "due soon")
    ELSE CASE r = HttpError ->
                  Arr(<<"Breakdown failed: HTTP error! status: 500">>)
           [] r = NoContent -> Arr(<<"Could not break down task.">>)
           [] r = Content(TextList) -> Arr(<<"Step 1", "Step 2">>)

====
